---- MODULE Spec2Model ----
(***************************************************************************)
(* Model of the note synthesiser of honors1/honors1.py and                 *)
(* honors2/honors2.py: Wave, Note, Piano, Song and main.                   *)
(*                                                                         *)
(* Numbers.  The program computes durations, clocks and sample counts in   *)
(* binary floating point (Python float) and converts them to sample        *)
(* indices with int().  Floating point is modelled by what it does: every  *)
(* arithmetic result is rounded to the nearest value with PREC significant *)
(* bits, ties to even.  A float is held as an integer count of units of    *)
(* 2^-FRACBITS.  PREC, FRACBITS and SAMPLERATE are scaled down from the    *)
(* program's 53 bits and 44100 Hz so that buffers hold a few samples; the  *)
(* rounding behaviour is the same in kind.                                 *)
(*                                                                         *)
(* Samples.  sin and exp are not expressible; a sample is an integer       *)
(* stand-in determined by the frequency and the sample index (Sample).     *)
(***************************************************************************)
EXTENDS Integers, Sequences, FiniteSets, TLC

VARIABLES
    \* a Piano of honors2 and what the last call on it returned
    piano, ret,
    \* history of the calls on the Piano: the Piano the same add_note calls
    \* build when nothing is rendered between them, and how far the calls
    \* have gone through render, add_note, render
    fresh, phase,
    \* two Waves, the operator applied to them, a op b and b op a
    variant, wa, wb, wop, wres, wrev,
    \* combine_notes: the accumulator, the notes to place, the result
    cacc, cnotes, cres,
    \* main: the program run, where main is, the songs it has started, the
    \* last call of load_and_play_song, the files in output_songs
    prog, mpc, attempted, cur, outdir

(***************************************************************************)
(* Bounds of the model.                                                    *)
(***************************************************************************)
\* samples per second (44100 in the source, honors2.py:9, scaled down)
SAMPLERATE == 3
\* significant bits of a float (53 in the program's doubles)
PREC == 7
\* a float is a multiple of 2^-FRACBITS
FRACBITS == 10
\* notes per hand
MaxNotes == 2
\* samples of a Wave operand given as data
MaxLen == 2
\* samples of an accumulator handed to combine_notes
MaxAcc == 3
\* notes handed to combine_notes
MaxPlaced == 2
\* tokens of the right-hand line of a song file
MaxTokens == 2

(***************************************************************************)
(* Floating point.                                                         *)
(***************************************************************************)
RECURSIVE Pow2(_)
Pow2(n) == IF n <= 0 THEN 1 ELSE 2 * Pow2(n - 1)

RECURSIVE BitLen(_)
BitLen(q) == IF q <= 0 THEN 0 ELSE 1 + BitLen(q \div 2)

Scale == Pow2(FRACBITS)

\* The float nearest to the rational n/d units (n >= 0, d > 0): PREC
\* significant bits, round half to even.
FRound(n, d) ==
    LET nearest(g) ==
            LET dd == d * g
                fl == n \div dd
                r2 == 2 * (n % dd)
            IN  (IF r2 > dd \/ (r2 = dd /\ fl % 2 = 1) THEN fl + 1 ELSE fl) * g
        ulp(bits) == IF bits > PREC THEN Pow2(bits - PREC) ELSE 1
    IN  nearest(ulp(BitLen(n \div d)))

\* a / b for two Python ints or literals (true division)
FDiv(a, b) == FRound(a * Scale, b)
\* x * y, x + y, x - y on floats
FMul(x, y) == FRound(x * y, Scale)
FAdd(x, y) == FRound(x + y, 1)
FSub(x, y) == FRound(x - y, 1)
\* i * x for a Python int i and a float x
FMulInt(i, x) == FRound(i * x, 1)
\* int(x) for a float x >= 0: truncation
PyInt(x) == x \div Scale
\* round(x) for a float x >= 0: half to even
PyRound(x) ==
    LET fl == x \div Scale
        r2 == 2 * (x % Scale)
    IN  IF r2 > Scale \/ (r2 = Scale /\ fl % 2 = 1) THEN fl + 1 ELSE fl

Max(a, b) == IF a >= b THEN a ELSE b
Min(a, b) == IF a <= b THEN a ELSE b

(***************************************************************************)
(* Constants of the program.                                               *)
(***************************************************************************)
None == "None"

PITCH_CLASSES ==
    [p \in {"C", "c", "D", "d", "E", "F", "f", "G", "g", "A", "a", "B"} |->
        CASE p = "C" -> 0 [] p = "c" -> 1 [] p = "D" -> 2 [] p = "d" -> 3
          [] p = "E" -> 4 [] p = "F" -> 5 [] p = "f" -> 6 [] p = "G" -> 7
          [] p = "g" -> 8 [] p = "A" -> 9 [] p = "a" -> 10 [] p = "B" -> 11]

\* DURATION_MAP: the literal of each symbol as <<numerator, denominator>>
DURATION_MAP ==
    [s \in {"WN", "DHN", "DDHN", "HN", "HNT", "QN", "QNT", "DQN", "DDQN", "EN",
            "DEN", "ENT", "DDEN", "SN", "DSN", "SNT", "TN", "TNT"} |->
        CASE s = "WN" -> <<4, 1>> [] s = "DHN" -> <<3, 1>> [] s = "DDHN" -> <<7, 2>>
          [] s = "HN" -> <<2, 1>> [] s = "HNT" -> <<4, 3>> [] s = "QN" -> <<1, 1>>
          [] s = "QNT" -> <<2, 3>> [] s = "DQN" -> <<3, 2>> [] s = "DDQN" -> <<7, 4>>
          [] s = "EN" -> <<1, 2>> [] s = "DEN" -> <<3, 4>> [] s = "ENT" -> <<1, 3>>
          [] s = "DDEN" -> <<7, 8>> [] s = "SN" -> <<1, 4>> [] s = "DSN" -> <<3, 8>>
          [] s = "SNT" -> <<1, 6>> [] s = "TN" -> <<1, 8>> [] s = "TNT" -> <<1, 12>>]

TEMPOS ==
    [t \in {"Grave", "Lento", "Largo", "Adagio", "Adagietto", "Andante", "Moderato",
            "Allegretto", "Allegro", "Vivace", "Presto", "Prestissimo"} |->
        CASE t = "Grave" -> 30 [] t = "Lento" -> 40 [] t = "Largo" -> 50
          [] t = "Adagio" -> 60 [] t = "Adagietto" -> 70 [] t = "Andante" -> 75
          [] t = "Moderato" -> 90 [] t = "Allegretto" -> 100 [] t = "Allegro" -> 120
          [] t = "Vivace" -> 135 [] t = "Presto" -> 170 [] t = "Prestissimo" -> 180]

\* 262 * 2^(note_step / 12), to the nearest Hz
SEMITONE_HZ ==
    [k \in 0..11 |->
        CASE k = 0 -> 262 [] k = 1 -> 278 [] k = 2 -> 294 [] k = 3 -> 312
          [] k = 4 -> 330 [] k = 5 -> 350 [] k = 6 -> 371 [] k = 7 -> 393
          [] k = 8 -> 416 [] k = 9 -> 441 [] k = 10 -> 467 [] k = 11 -> 495]

(***************************************************************************)
(* Exceptions: a raised exception is a record with the field exc.          *)
(***************************************************************************)
Raise(name) == [exc |-> name]
IsError(x) == "exc" \in DOMAIN x

(***************************************************************************)
(* Wave (honors2).                                                         *)
(***************************************************************************)
Zeros(n) == [i \in 1..n |-> 0]

\* One sample of generate_wave at index k (0-based): zero at t = 0 and for
\* frequency 0, because sin(0) = 0; otherwise a nonzero stand-in.
Sample(frequency, k) ==
    IF frequency = 0 \/ k = 0 THEN 0 ELSE 1 + ((frequency + k) % 3)

generate_wave(frequency, duration) ==
    [i \in 1..PyInt(FMulInt(SAMPLERATE, duration)) |-> Sample(frequency, i - 1)]

\* Wave(frequency, duration, data) with data given
Wave(frequency, duration, data) ==
    [frequency |-> frequency, duration |-> duration, data |-> data]

\* Wave(frequency, duration): data generated
NewWave(frequency, duration) ==
    Wave(frequency, duration, generate_wave(frequency, duration))

\* (mutant) combined_data sized by the left operand alone
AddData_SelfLength(x, y) ==
    [i \in 1..Len(x) |-> x[i] + (IF i <= Len(y) THEN y[i] ELSE 0)]

\* combined_data of __add__: both operands added into max_length zeros
AddData(x, y) ==
    [i \in 1..Max(Len(x), Len(y)) |->
        (IF i <= Len(x) THEN x[i] ELSE 0) + (IF i <= Len(y) THEN y[i] ELSE 0)]

Wave_add(self, other) ==
    Wave(self.frequency + other.frequency, self.duration, AddData(self.data, other.data))

(***************************************************************************)
(* Wave (honors1): it carries an amplitude, and __add__ keeps the left     *)
(* operand's frequency.                                                    *)
(***************************************************************************)
AMPLITUDE == 4096

Sample1(amplitude, frequency, k) ==
    IF amplitude = 0 \/ frequency = 0 \/ k = 0 THEN 0 ELSE 1 + ((frequency + k) % 3)

generate_wave1(frequency, duration, amplitude) ==
    [i \in 1..PyInt(FMulInt(SAMPLERATE, duration)) |-> Sample1(amplitude, frequency, i - 1)]

Wave1(frequency, duration, amplitude, data) ==
    [frequency |-> frequency, duration |-> duration, amplitude |-> amplitude, data |-> data]

NewWave1(frequency, duration, amplitude) ==
    Wave1(frequency, duration, amplitude, generate_wave1(frequency, duration, amplitude))

Wave1_add(self, other) ==
    Wave1(self.frequency, self.duration, AMPLITUDE, AddData(self.data, other.data))

(***************************************************************************)
(* Binary operators on Waves.  Python looks the operator's method up in    *)
(* the class of the left operand, then the reflected method in the class   *)
(* of the right one; a class that defines neither makes the expression     *)
(* raise TypeError.                                                        *)
(***************************************************************************)
\* the methods class Wave defines
WaveMethods(v) ==
    IF v = "honors1" THEN {"__init__", "generate_wave", "__add__"}
    ELSE {"__init__", "generate_wave", "__add__", "__str__"}

Dunder(op) ==
    CASE op = "+" -> <<"__add__", "__radd__">>
      [] op = "-" -> <<"__sub__", "__rsub__">>
      [] op = "*" -> <<"__mul__", "__rmul__">>

WaveResult(w) == [kind |-> "wave", frequency |-> w.frequency, data |-> w.data, exc |-> ""]
WaveRaised(e) == [kind |-> "raise", frequency |-> 0, data |-> <<>>, exc |-> e]
NoWave == [kind |-> "none", frequency |-> 0, data |-> <<>>, exc |-> ""]

\* a op b for two Waves of variant v
BinOp(v, op, a, b) ==
    IF Dunder(op)[1] \in WaveMethods(v)
    THEN WaveResult(IF v = "honors1" THEN Wave1_add(a, b) ELSE Wave_add(a, b))
    ELSE WaveRaised("TypeError")

(***************************************************************************)
(* Note.                                                                   *)
(***************************************************************************)
calculate_frequency(pitch, octave) ==
    IF pitch = None THEN 0
    ELSE LET note_step == IF pitch \in DOMAIN PITCH_CLASSES THEN PITCH_CLASSES[pitch] ELSE 0
             octave_offset == octave - 4
         IN  IF octave_offset >= 0
             THEN SEMITONE_HZ[note_step] * Pow2(octave_offset)
             ELSE SEMITONE_HZ[note_step] \div Pow2(0 - octave_offset)

calculate_duration(tempo_bpm, duration_symbol) ==
    LET beats_per_second == FDiv(60, tempo_bpm)
        duration_notation == FDiv(DURATION_MAP[duration_symbol][1],
                                  DURATION_MAP[duration_symbol][2])
    IN  FMul(duration_notation, beats_per_second)

\* (mutant) a tempo name missing from TEMPOS falls back to 60
Note_DefaultTempo(pitch, octave, duration_symbol, tempo) ==
    IF duration_symbol \notin DOMAIN DURATION_MAP THEN Raise("KeyError")
    ELSE LET self(bpm, frequency, duration) ==
                 [pitch |-> pitch, octave |-> octave, duration_symbol |-> duration_symbol,
                  tempo |-> bpm, frequency |-> frequency, duration |-> duration,
                  wave |-> NewWave(IF pitch = None THEN 0 ELSE frequency, duration)]
             with(bpm) ==
                 self(bpm, IF pitch # None THEN calculate_frequency(pitch, octave) ELSE 0,
                      calculate_duration(bpm, duration_symbol))
         IN  with(IF tempo \in DOMAIN TEMPOS THEN TEMPOS[tempo] ELSE 60)

\* Note.__init__: the note, or the KeyError of the first failing lookup
Note(pitch, octave, duration_symbol, tempo) ==
    IF tempo \notin DOMAIN TEMPOS THEN Raise("KeyError")
    ELSE IF duration_symbol \notin DOMAIN DURATION_MAP THEN Raise("KeyError")
    ELSE LET self(frequency, duration) ==
                 [pitch |-> pitch, octave |-> octave, duration_symbol |-> duration_symbol,
                  tempo |-> TEMPOS[tempo], frequency |-> frequency, duration |-> duration,
                  wave |-> NewWave(IF pitch = None THEN 0 ELSE frequency, duration)]
         IN  self(IF pitch # None THEN calculate_frequency(pitch, octave) ELSE 0,
                  calculate_duration(TEMPOS[tempo], duration_symbol))

(***************************************************************************)
(* What a call returned: nothing (None), an array, or a raised exception.  *)
(***************************************************************************)
NoReturn == [kind |-> "none", data |-> <<>>, exc |-> ""]
Array(data) == [kind |-> "array", data |-> data, exc |-> ""]
Raised(e) == [kind |-> "raise", data |-> <<>>, exc |-> e.exc]

(***************************************************************************)
(* Piano (honors2).                                                        *)
(***************************************************************************)
Piano_init ==
    [notes_left |-> <<>>, notes_right |-> <<>>, time_left |-> 0, time_right |-> 0]

\* (mutant) the note is appended and the clock is left where it was
add_note_left_ClockKept(self, note) ==
    [self EXCEPT !.notes_left = Append(@, <<note, self.time_left>>)]

add_note_left(self, note) ==
    [self EXCEPT !.notes_left = Append(@, <<note, self.time_left>>),
                 !.time_left = FAdd(@, note.duration)]

add_note_right(self, note) ==
    [self EXCEPT !.notes_right = Append(@, <<note, self.time_right>>),
                 !.time_right = FAdd(@, note.duration)]

\* note_wave_extended[start_index:start_index + len(data)] = data on L zeros:
\* the slice is clipped to the array; a value of another length than the
\* slice is broadcast when it has one element and raises ValueError otherwise.
\* The array is returned in the field data.
SliceAssign(L, start_index, data) ==
    LET n  == Len(data)
        lo == Min(start_index, L)
        hi == Min(start_index + n, L)
    IN  IF n = hi - lo
        THEN [data |-> [i \in 1..L |-> IF i > lo /\ i <= hi THEN data[i - lo] ELSE 0]]
        ELSE IF n = 1
        THEN [data |-> [i \in 1..L |-> IF i > lo /\ i <= hi THEN data[1] ELSE 0]]
        ELSE Raise("ValueError")

RECURSIVE combine_loop(_, _, _, _)
combine_loop(final_wave, notes, k, current_time) ==
    IF k > Len(notes) THEN final_wave
    ELSE
      LET note == notes[k][1]
          start_time == notes[k][2]
          silence_wave(silence_duration) ==
              Wave(0, silence_duration,
                   Zeros(PyInt(FMulInt(SAMPLERATE, silence_duration))))
          start_index == PyInt(FMulInt(SAMPLERATE, start_time))
          added(padded, note_wave_extended) ==
              IF IsError(note_wave_extended) THEN note_wave_extended
              ELSE combine_loop(
                     Wave_add(padded,
                              Wave(note.frequency, note.duration, note_wave_extended.data)),
                     notes, k + 1, FAdd(start_time, note.duration))
          placed(padded) ==
              added(padded, SliceAssign(Len(padded.data), start_index, note.wave.data))
      IN  placed(Wave_add(final_wave,
                          silence_wave(IF start_time > current_time
                                       THEN FSub(start_time, current_time) ELSE 0)))

combine_notes(final_wave, notes) == combine_loop(final_wave, notes, 1, 0)

\* (mutant) the buffer is sized by the left hand alone
final_wave_init_LeftOnly(self) ==
    Wave(0, self.time_left, Zeros(PyInt(FMulInt(SAMPLERATE, self.time_left))))

\* the Wave that get_combined_wave_array allocates
final_wave_init(self) ==
    LET max_duration == Max(self.time_left, self.time_right)
    IN  Wave(0, max_duration, Zeros(PyInt(FMulInt(SAMPLERATE, max_duration))))

\* final_wave.data, or the exception raised on the way
get_combined_wave_array(self) ==
    LET returned(final_wave) ==
            IF IsError(final_wave) THEN Raised(final_wave) ELSE Array(final_wave.data)
        right(final_wave) ==
            IF IsError(final_wave) THEN final_wave
            ELSE combine_notes(final_wave, self.notes_right)
    IN  returned(right(combine_notes(final_wave_init(self), self.notes_left)))

(***************************************************************************)
(* Rendering on array objects.  A numpy array is an object: a slice        *)
(* assignment and += on a slice write into the object they name, and every *)
(* holder of the object sees the write.  A heap is the sequence of the     *)
(* arrays alive, an array object is its index in the heap, and a Wave      *)
(* holds in data the index of its array.  The notes' arrays come first,    *)
(* the left hand's before the right hand's.                                *)
(***************************************************************************)
NoteArrays(self) ==
    [k \in 1..(Len(self.notes_left) + Len(self.notes_right)) |->
        IF k <= Len(self.notes_left) THEN self.notes_left[k][1].wave.data
        ELSE self.notes_right[k - Len(self.notes_left)][1].wave.data]

\* np.zeros(n), np.zeros_like: a new array object, the last of the heap
np_zeros(heap, n) == Append(heap, Zeros(n))

\* target[:len(source)] += source, written into the object target
iadd_prefix(heap, target, source) ==
    [heap EXCEPT ![target] =
        [i \in 1..Len(@) |->
            @[i] + (IF i <= Len(heap[source]) THEN heap[source][i] ELSE 0)]]

\* Wave.__add__ on array objects: the heap after it and the Wave returned
Wave_add_heap(heap, self, other) ==
    LET combined(h) ==
            [heap |-> iadd_prefix(iadd_prefix(h, Len(h), self.data), Len(h), other.data),
             wave |-> Wave(self.frequency + other.frequency, self.duration, Len(h))]
    IN  combined(np_zeros(heap, Max(Len(heap[self.data]), Len(heap[other.data]))))

\* target[start_index:start_index + len(source)] = source, written into the
\* object target: the heap after it, or the exception (see SliceAssign)
setslice(heap, target, start_index, source) ==
    LET L  == Len(heap[target])
        n  == Len(heap[source])
        lo == Min(start_index, L)
        hi == Min(start_index + n, L)
    IN  IF n = hi - lo
        THEN [exc |-> "",
              heap |-> [heap EXCEPT ![target] =
                          [i \in 1..L |->
                              IF i > lo /\ i <= hi THEN heap[source][i - lo] ELSE @[i]]]]
        ELSE IF n = 1
        THEN [exc |-> "",
              heap |-> [heap EXCEPT ![target] =
                          [i \in 1..L |-> IF i > lo /\ i <= hi THEN heap[source][1] ELSE @[i]]]]
        ELSE [exc |-> "ValueError", heap |-> heap]

\* (mutant) the padded array is stored back into the note
note_wave_extended_Stored(heap, final_wave, start_index, data) ==
    LET assigned(h, r) ==
            [exc |-> r.exc,
             heap |-> IF r.exc = "" THEN [r.heap EXCEPT ![data] = r.heap[Len(h)]] ELSE r.heap,
             data |-> data]
        zeros(h) == assigned(h, setslice(h, Len(h), start_index, data))
    IN  zeros(np_zeros(heap, Len(heap[final_wave.data])))

\* note_wave_extended: a new array like final_wave.data with the note's
\* samples assigned from start_index on; data is the note's array
note_wave_extended(heap, final_wave, start_index, data) ==
    LET assigned(h, r) == [exc |-> r.exc, heap |-> r.heap, data |-> Len(h)]
        zeros(h) == assigned(h, setslice(h, Len(h), start_index, data))
    IN  zeros(np_zeros(heap, Len(heap[final_wave.data])))

\* the loop of combine_notes from note k on; base is the number of note
\* arrays before those of notes
RECURSIVE combine_loop_heap(_, _, _, _, _, _)
combine_loop_heap(heap, final_wave, notes, base, k, current_time) ==
    IF k > Len(notes) THEN [exc |-> "", heap |-> heap, wave |-> final_wave]
    ELSE
      LET note == notes[k][1]
          start_time == notes[k][2]
          start_index == PyInt(FMulInt(SAMPLERATE, start_time))
          next(sum) ==
              combine_loop_heap(sum.heap, sum.wave, notes, base, k + 1,
                                FAdd(start_time, note.duration))
          added(padded, extended) ==
              IF extended.exc # ""
              THEN [exc |-> extended.exc, heap |-> extended.heap, wave |-> padded.wave]
              ELSE next(Wave_add_heap(extended.heap, padded.wave,
                                      Wave(note.frequency, note.duration, extended.data)))
          placed(padded) ==
              added(padded,
                    note_wave_extended(padded.heap, padded.wave, start_index, base + k))
          silenced(silence_duration, h) ==
              placed(Wave_add_heap(h, final_wave, Wave(0, silence_duration, Len(h))))
          silence(silence_duration) ==
              silenced(silence_duration,
                       np_zeros(heap, PyInt(FMulInt(SAMPLERATE, silence_duration))))
      IN  silence(IF start_time > current_time THEN FSub(start_time, current_time) ELSE 0)

\* get_combined_wave_array on array objects: the heap after it and what the
\* call returned
get_combined_wave_array_heap(self) ==
    LET returned(r) ==
            [heap |-> r.heap,
             ret |-> IF r.exc # "" THEN Raised(r) ELSE Array(r.heap[r.wave.data])]
        right(l) ==
            IF l.exc # "" THEN l
            ELSE combine_loop_heap(l.heap, l.wave, self.notes_right,
                                   Len(self.notes_left), 1, 0)
        left(max_duration, h) ==
            returned(right(combine_loop_heap(h, Wave(0, max_duration, Len(h)),
                                             self.notes_left, 0, 1, 0)))
        zeros(max_duration) ==
            left(max_duration,
                 np_zeros(NoteArrays(self), PyInt(FMulInt(SAMPLERATE, max_duration))))
    IN  zeros(Max(self.time_left, self.time_right))

\* the Piano whose notes hold the arrays of heap
Holding(self, heap) ==
    [self EXCEPT
        !.notes_left =
            [k \in 1..Len(@) |-> <<[@[k][1] EXCEPT !.wave.data = heap[k]], @[k][2]>>],
        !.notes_right =
            [k \in 1..Len(@) |->
                <<[@[k][1] EXCEPT !.wave.data = heap[Len(self.notes_left) + k]], @[k][2]>>]]

(***************************************************************************)
(* Note and Piano (honors1).                                               *)
(***************************************************************************)
Note1(pitch, octave, duration_symbol, tempo) ==
    IF tempo \notin DOMAIN TEMPOS THEN Raise("KeyError")
    ELSE IF duration_symbol \notin DOMAIN DURATION_MAP THEN Raise("KeyError")
    ELSE LET self(frequency, duration, amplitude) ==
                 [pitch |-> pitch, octave |-> octave, duration_symbol |-> duration_symbol,
                  tempo |-> TEMPOS[tempo], frequency |-> frequency, duration |-> duration,
                  amplitude |-> amplitude, wave |-> NewWave1(frequency, duration, amplitude)]
         IN  self(IF pitch # None THEN calculate_frequency(pitch, octave) ELSE 0,
                  calculate_duration(TEMPOS[tempo], duration_symbol),
                  IF pitch # None THEN AMPLITUDE ELSE 0)

\* Piano.add_note
add_note(notes, note) == Append(notes, note)

\* Piano.get_combined_wave: the notes' samples one after the other
RECURSIVE get_combined_wave(_)
get_combined_wave(notes) ==
    IF notes = <<>> THEN <<>>
    ELSE notes[1].wave.data \o get_combined_wave(Tail(notes))

(***************************************************************************)
(* Song files.  A file is its first line split at ',' (tempos) and its     *)
(* other lines; a line is its tokens (the line split at '-') and whether   *)
(* it starts with a quote; a token is its fields (the token split at       *)
(* ','): the first a sequence of characters, the second a duration symbol. *)
(* The empty string splits into one empty field.                           *)
(***************************************************************************)
Digit ==
    [c \in {"0", "1", "2", "3", "4", "5", "6", "7", "8", "9"} |->
        CASE c = "0" -> 0 [] c = "1" -> 1 [] c = "2" -> 2 [] c = "3" -> 3 [] c = "4" -> 4
          [] c = "5" -> 5 [] c = "6" -> 6 [] c = "7" -> 7 [] c = "8" -> 8 [] c = "9" -> 9]

\* if note_info: a string is true unless empty
IsEmptyString(note_info) == Len(note_info) = 1 /\ note_info[1] = <<>>

\* What the body of the token loop does up to and including the Note
\* constructor: the Note, or the exception.  v is the program whose Note
\* class is constructed.
ParseNote(note_info, tempo, v) ==
    IF Len(note_info) # 2 THEN Raise("ValueError")
    ELSE LET note == note_info[1]
             duration == note_info[2]
             pitch == IF Len(note) > 1 THEN note[1] ELSE None
         IN  IF pitch # None /\ note[2] \notin DOMAIN Digit THEN Raise("ValueError")
             ELSE LET octave == IF pitch # None THEN Digit[note[2]] ELSE 0
                  IN  IF v = "honors1" THEN Note1(pitch, octave, duration, tempo)
                      ELSE Note(pitch, octave, duration, tempo)

Built(note) == [pitch |-> note.pitch, octave |-> note.octave, frequency |-> note.frequency]

\* Song.process_notes (honors2) from token k on.  st holds the piano, the
\* notes built so far and the exception raised, if any.
RECURSIVE process_notes_from(_, _, _, _, _)
process_notes_from(st, note_infos, k, tempo, hand) ==
    IF st.exc # "" \/ k > Len(note_infos) THEN st
    ELSE IF IsEmptyString(note_infos[k])
    THEN process_notes_from(st, note_infos, k + 1, tempo, hand)
    ELSE LET added(note) ==
                 IF IsError(note) THEN [st EXCEPT !.exc = note.exc]
                 ELSE process_notes_from(
                        [st EXCEPT !.piano = IF hand = "r" THEN add_note_right(@, note)
                                             ELSE IF hand = "l" THEN add_note_left(@, note)
                                             ELSE @,
                                   !.built = Append(@, Built(note))],
                        note_infos, k + 1, tempo, hand)
         IN  added(ParseNote(note_infos[k], tempo, "honors2"))

process_notes(st, note_infos, tempo, hand) == process_notes_from(st, note_infos, 1, tempo, hand)

\* for i in range(0, len(lines), 3), from line i (0-based) on
RECURSIVE blocks_from(_, _, _, _)
blocks_from(st, lines, i, tempo_user) ==
    IF st.exc # "" \/ i >= Len(lines) THEN st
    ELSE IF i + 2 >= Len(lines) THEN [st EXCEPT !.exc = "IndexError"]
    ELSE blocks_from(
           process_notes(process_notes(st, lines[i + 2].tokens, tempo_user, "r"),
                         lines[i + 3].tokens, tempo_user, "l"),
           lines, i + 3, tempo_user)

NoCall ==
    [called |-> FALSE, file |-> <<>>, tempo_user |-> "", exc |-> "", built |-> <<>>,
     wrote |-> FALSE, frames |-> 0]

Outcome(file, tempo_user, exc, built, wrote, frames) ==
    [called |-> TRUE, file |-> <<file>>, tempo_user |-> tempo_user, exc |-> exc,
     built |-> built, wrote |-> wrote, frames |-> frames]

\* Song.load_and_play_song (honors2) on a file, the user choosing tempo_user
load_and_play_song2(file, tempo_user) ==
    IF ~file.exists THEN Outcome(file, "", "FileNotFoundError", <<>>, FALSE, 0)
    ELSE LET written(st, wave) ==
                 IF wave.kind = "raise"
                 THEN Outcome(file, tempo_user, wave.exc, st.built, FALSE, 0)
                 ELSE Outcome(file, tempo_user, "", st.built, TRUE, Len(wave.data))
             played(st) ==
                 IF st.exc # "" THEN Outcome(file, tempo_user, st.exc, st.built, FALSE, 0)
                 ELSE written(st, get_combined_wave_array(st.piano))
         IN  played(blocks_from([piano |-> Piano_init, built |-> <<>>, exc |-> ""],
                                file.lines, 0, tempo_user))

\* honors1: the tokens of one line, from token k on
RECURSIVE line1_from(_, _, _, _)
line1_from(st, note_infos, k, tempo) ==
    IF st.exc # "" \/ k > Len(note_infos) THEN st
    ELSE IF IsEmptyString(note_infos[k]) THEN line1_from(st, note_infos, k + 1, tempo)
    ELSE LET added(note) ==
                 IF IsError(note) THEN [st EXCEPT !.exc = note.exc]
                 ELSE line1_from([st EXCEPT !.piano = add_note(@, note),
                                            !.built = Append(@, Built(note))],
                                 note_infos, k + 1, tempo)
         IN  added(ParseNote(note_infos[k], tempo, "honors1"))

\* honors1: for line in lines, from line j on
RECURSIVE lines1_from(_, _, _, _)
lines1_from(st, lines, j, tempo) ==
    IF st.exc # "" \/ j > Len(lines) THEN st
    ELSE lines1_from(IF lines[j].quoted THEN st ELSE line1_from(st, lines[j].tokens, 1, tempo),
                     lines, j + 1, tempo)

\* honors1: for tempo in tempos, from tempo t on
RECURSIVE tempos1_from(_, _, _, _)
tempos1_from(st, tempos, t, lines) ==
    IF st.exc # "" \/ t > Len(tempos) THEN st
    ELSE tempos1_from(lines1_from(st, lines, 1, tempos[t]), tempos, t + 1, lines)

\* Song.load_and_play_song (honors1)
load_and_play_song1(file) ==
    IF ~file.exists THEN Outcome(file, "", "FileNotFoundError", <<>>, FALSE, 0)
    ELSE LET played(st) ==
                 IF st.exc # "" THEN Outcome(file, "", st.exc, st.built, FALSE, 0)
                 ELSE Outcome(file, "", "", st.built, TRUE, Len(get_combined_wave(st.piano)))
         IN  played(tempos1_from([piano |-> <<>>, built |-> <<>>, exc |-> ""],
                                 file.tempos, 1, file.lines))

(***************************************************************************)
(* main.                                                                   *)
(***************************************************************************)
songs(p) ==
    IF p = "honors1" THEN <<"alouette.txt", "row_row.txt", "twinkle_twinkle.txt">>
    ELSE <<"alouette2.txt", "row_row2.txt", "twinkle_twinkle2.txt">>

\* filename_output: the name with .txt replaced by .wav, in output_songs
filename_output(filepath) ==
    CASE filepath = "alouette.txt" -> "output_songs/alouette.wav"
      [] filepath = "row_row.txt" -> "output_songs/row_row.wav"
      [] filepath = "twinkle_twinkle.txt" -> "output_songs/twinkle_twinkle.wav"
      [] filepath = "alouette2.txt" -> "output_songs/alouette2.wav"
      [] filepath = "row_row2.txt" -> "output_songs/row_row2.wav"
      [] filepath = "twinkle_twinkle2.txt" -> "output_songs/twinkle_twinkle2.wav"

(***************************************************************************)
(* Spec: a Piano under add_note_left, add_note_right and                   *)
(* get_combined_wave_array.                                                *)
(***************************************************************************)
PitchInputs == {None, "A"}
OctaveInputs == {4}
SymbolInputs == {"QN", "HNT", "EN"}
TempoInputs == {"Adagio"}

NoteInputs ==
    {Note(p, o, s, t) : p \in PitchInputs, o \in OctaveInputs,
                        s \in SymbolInputs, t \in TempoInputs}

pianoVars == <<piano, ret, fresh, phase>>
waveVars == <<variant, wa, wb, wop, wres, wrev>>
combVars == <<cacc, cnotes, cres>>
songVars == <<prog, mpc, attempted, cur, outdir>>
vars == <<pianoVars, waveVars, combVars, songVars>>

\* the values of the variables a specification does not use
PianoIdle ==
    /\ piano = Piano_init
    /\ ret = NoReturn
    /\ fresh = Piano_init
    /\ phase = "none"
WaveIdle ==
    /\ variant = "honors2"
    /\ wa = Wave(0, 0, <<>>)
    /\ wb = Wave(0, 0, <<>>)
    /\ wop = "none"
    /\ wres = NoWave
    /\ wrev = NoWave
CombIdle ==
    /\ cacc = Wave(0, 0, <<>>)
    /\ cnotes = <<>>
    /\ cres = NoReturn

SongIdle ==
    /\ prog = "honors2"
    /\ mpc = "loop"
    /\ attempted = 0
    /\ cur = NoCall
    /\ outdir = {}

Init ==
    /\ PianoIdle
    /\ WaveIdle
    /\ CombIdle
    /\ SongIdle

\* an add_note call after a render
Added == IF phase \in {"rendered", "again"} THEN "added" ELSE phase

\* piano.add_note_left(note) for a note of inputs
AddLeft(inputs) ==
    /\ Len(piano.notes_left) < MaxNotes
    /\ \E note \in inputs :
          /\ piano' = add_note_left(piano, note)
          /\ fresh' = add_note_left(fresh, note)
    /\ ret' = NoReturn
    /\ phase' = Added
    /\ UNCHANGED <<waveVars, combVars, songVars>>

\* piano.add_note_right(note) for a note of inputs
AddRight(inputs) ==
    /\ Len(piano.notes_right) < MaxNotes
    /\ \E note \in inputs :
          /\ piano' = add_note_right(piano, note)
          /\ fresh' = add_note_right(fresh, note)
    /\ ret' = NoReturn
    /\ phase' = Added
    /\ UNCHANGED <<waveVars, combVars, songVars>>

AddNoteLeft == AddLeft(NoteInputs)

AddNoteRight == AddRight(NoteInputs)

Render ==
    /\ ret' = get_combined_wave_array(piano)
    /\ UNCHANGED <<piano, fresh, phase, waveVars, combVars, songVars>>

Next == AddNoteLeft \/ AddNoteRight \/ Render

Spec == Init /\ [][Next]_vars

(***************************************************************************)
(* Claims about the Piano.                                                 *)
(***************************************************************************)
\* the program's running sum (time += note.duration) over the first k notes
RECURSIVE DurSum(_, _)
DurSum(notes, k) ==
    IF k = 0 THEN 0 ELSE FAdd(DurSum(notes, k - 1), notes[k][1].duration)

BackToBack(notes, clock) ==
    /\ \A k \in 1..Len(notes) :
          /\ notes[k][2] = DurSum(notes, k - 1)
          /\ notes[k][2] >= 0
    /\ clock = DurSum(notes, Len(notes))
    /\ \A k \in 1..(Len(notes) - 1) :
          /\ notes[k + 1][2] >= notes[k][2]
          /\ notes[k + 1][2] = FAdd(notes[k][2], notes[k][1].duration)

\* C1: in each voice the k-th note starts at the running sum of the durations
\* of the notes added before it, the voice's clock is the running sum of all
\* its durations, start times are non-negative and non-decreasing, and each
\* note starts where the previous one ends (no overlap in time).
C1_StartTimes ==
    /\ BackToBack(piano.notes_left, piano.time_left)
    /\ BackToBack(piano.notes_right, piano.time_right)

C1_Witness ==
    /\ Len(piano.notes_left) = 2
    /\ Len(piano.notes_right) = 2
    /\ piano.notes_left[2][2] > 0
    /\ piano.notes_left[2][2] # piano.notes_right[2][2]
    /\ piano.time_left # piano.time_right

\* what the notes of one voice contribute to sample i (0-based)
RECURSIVE Contribution(_, _, _)
Contribution(notes, k, i) ==
    IF k = 0 THEN 0
    ELSE LET off == i - PyInt(FMulInt(SAMPLERATE, notes[k][2]))
             data == notes[k][1].wave.data
         IN  Contribution(notes, k - 1, i)
               + (IF off >= 0 /\ off < Len(data) THEN data[off + 1] ELSE 0)

Superposed(data) ==
    \A i \in 1..Len(data) :
        data[i] = Contribution(piano.notes_left, Len(piano.notes_left), i - 1)
                    + Contribution(piano.notes_right, Len(piano.notes_right), i - 1)

\* C2: every render of a reachable Piano returns a buffer, and sample i of
\* it is the sum over both voices and all their notes of the note's sample
\* at i - floor(start_time * sample_rate) where that lies in the note.
C2_Superposition ==
    ret.kind # "none" => (ret.kind = "array" /\ Superposed(ret.data))

\* the renders that do return are superpositions
C2_WhenReturned == ret.kind = "array" => Superposed(ret.data)

SampleInputs == {-1, 2}
RECURSIVE SeqsUpTo(_, _)
SeqsUpTo(S, n) ==
    IF n = 0 THEN {<<>>}
    ELSE SeqsUpTo(S, n - 1) \cup {Append(q, x) : q \in {r \in SeqsUpTo(S, n - 1) : Len(r) = n - 1}, x \in S}

DataInputs == SeqsUpTo(SampleInputs, MaxLen)
FrequencyInputs == {440, 880}

WaveInputs(v) ==
    IF v = "honors1"
    THEN {Wave1(f, Scale, AMPLITUDE, d) : f \in FrequencyInputs, d \in DataInputs}
    ELSE {Wave(f, Scale, d) : f \in FrequencyInputs, d \in DataInputs}

InitWave ==
    /\ variant \in {"honors1", "honors2"}
    /\ wa \in WaveInputs(variant)
    /\ wb \in WaveInputs(variant)
    /\ wop = "none"
    /\ wres = NoWave
    /\ wrev = NoWave
    /\ PianoIdle
    /\ CombIdle
    /\ SongIdle

\* a op b and b op a are evaluated
Apply(op) ==
    /\ wop = "none"
    /\ wop' = op
    /\ wres' = BinOp(variant, op, wa, wb)
    /\ wrev' = BinOp(variant, op, wb, wa)
    /\ UNCHANGED <<variant, wa, wb, pianoVars, combVars, songVars>>

ApplyAdd == Apply("+")
ApplySub == Apply("-")
ApplyMul == Apply("*")

NextWave == ApplyAdd \/ ApplySub \/ ApplyMul

SpecWave == InitWave /\ [][NextWave]_vars

At(data, i) == IF i <= Len(data) THEN data[i] ELSE 0

\* C6: a + b and b + a have the same samples, each the sum of the operands'
\* samples with the shorter operand zero-padded, and max(len(a), len(b)) of
\* them.
C6_AddCommutes ==
    wop = "+" =>
        /\ wres.kind = "wave"
        /\ wrev.kind = "wave"
        /\ wres.data = wrev.data
        /\ Len(wres.data) = Max(Len(wa.data), Len(wb.data))
        /\ \A i \in 1..Len(wres.data) : wres.data[i] = At(wa.data, i) + At(wb.data, i)

C6_Witness ==
    /\ wop = "+"
    /\ wres.kind = "wave"
    /\ Len(wa.data) = 1
    /\ Len(wb.data) = 2
    /\ wa.frequency # wb.frequency
    /\ wa.data[1] # wb.data[1]

\* C8: a * b is a Wave with len(a.data) samples, a.data[i] * b.data[i]
\* below the length of the shorter operand and zero beyond it.
C8_MulElementwise ==
    (wop = "*" /\ Len(wa.data) >= Len(wb.data)) =>
        /\ wres.kind = "wave"
        /\ Len(wres.data) = Len(wa.data)
        /\ \A i \in 1..Len(wres.data) :
              wres.data[i] = IF i <= Len(wb.data) THEN wa.data[i] * wb.data[i] ELSE 0

\* C9: a - b is a Wave holding the elementwise difference of the operands'
\* samples; w - w is all zeros, as long as w.
C9_SubElementwise ==
    wop = "-" =>
        /\ wres.kind = "wave"
        /\ \A i \in 1..Len(wres.data) : wres.data[i] = At(wa.data, i) - At(wb.data, i)
        /\ wa = wb => wres.data = Zeros(Len(wa.data))

(***************************************************************************)
(* SpecCombine: combine_notes on a given accumulator and a given list of   *)
(* (note, start_time) pairs.                                               *)
(***************************************************************************)
StartInputs == {0, FDiv(1, 1), FDiv(4, 3)}
PlacedInputs == {<<n, t>> : n \in NoteInputs, t \in StartInputs}
AccInputs == {Wave(0, Scale, d) : d \in SeqsUpTo({0, 5}, MaxAcc)}

InitCombine ==
    /\ cacc \in AccInputs
    /\ cnotes \in SeqsUpTo(PlacedInputs, MaxPlaced)
    /\ cres = NoReturn
    /\ PianoIdle
    /\ WaveIdle
    /\ SongIdle

Combine ==
    /\ cres.kind = "none"
    /\ cres' = (LET w == combine_notes(cacc, cnotes)
                IN  IF IsError(w) THEN Raised(w) ELSE Array(w.data))
    /\ UNCHANGED <<cacc, cnotes, pianoVars, waveVars, songVars>>

NextCombine == Combine

SpecCombine == InitCombine /\ [][NextCombine]_vars

\* C10: combine_notes never raises and never changes the accumulator's
\* length; a note reaching past the end of the accumulator is cut at the
\* end and its samples inside the accumulator are added.
C10_Clipped ==
    cres.kind # "none" =>
        /\ cres.kind = "array"
        /\ Len(cres.data) = Len(cacc.data)
        /\ \A i \in 1..Len(cres.data) :
              cres.data[i] = cacc.data[i] + Contribution(cnotes, Len(cnotes), i - 1)

(***************************************************************************)
(* SpecSong: main over its three songs.  What each file holds is read when *)
(* the song is loaded.                                                     *)
(***************************************************************************)
\* the tokens "", "C4,QN", ",EN", "X4,HNT", "C4" and "A4,ZZ"
EmptyToken == << <<>> >>
TokenInputs ==
    { EmptyToken,
      << <<"C", "4">>, "QN" >>,
      << <<>>, "EN" >>,
      << <<"X", "4">>, "HNT" >>,
      << <<"C", "4">> >>,
      << <<"A", "4">>, "ZZ" >> }

LabelLine == [quoted |-> TRUE, tokens |-> <<EmptyToken>>]
NoteLine(tokens) == [quoted |-> FALSE, tokens |-> tokens]
RightLines == {NoteLine(ts) : ts \in SeqsUpTo(TokenInputs, MaxTokens) \ {<<>>}}
LeftLines == {NoteLine(<<t>>) : t \in TokenInputs}

LinesInputs ==
    {<<>>, <<LabelLine>>}
      \cup {<<LabelLine, r>> : r \in RightLines}
      \cup {<<LabelLine, r, l>> : r \in RightLines, l \in LeftLines}

TempoListInputs == {<<"Adagio">>, <<"Swing">>, <<"Adagio", "Swing">>}

MissingFile == [exists |-> FALSE, tempos |-> <<>>, lines |-> <<>>]
FileInputs ==
    {MissingFile}
      \cup {[exists |-> TRUE, tempos |-> t, lines |-> l] : t \in TempoListInputs, l \in LinesInputs}

Range(f) == {f[i] : i \in DOMAIN f}

InitSong ==
    /\ prog \in {"honors1", "honors2"}
    /\ mpc = "loop"
    /\ attempted = 0
    /\ cur = NoCall
    /\ outdir = {}
    /\ PianoIdle
    /\ WaveIdle
    /\ CombIdle

\* for song in songs: my_song = Song(filepath=song).  The Song of the
\* previous iteration is dropped.
NewSong ==
    /\ mpc = "loop"
    /\ attempted < Len(songs(prog))
    /\ cur' = NoCall
    /\ mpc' = "play"
    /\ UNCHANGED <<prog, attempted, outdir, pianoVars, waveVars, combVars>>

\* my_song.load_and_play_song().  An exception is caught nowhere and ends
\* main.
PlaySong ==
    /\ mpc = "play"
    /\ \E file \in FileInputs :
         \E tempo_user \in (IF prog = "honors2" /\ file.exists THEN Range(file.tempos) ELSE {""}) :
           \E out \in {IF prog = "honors1" THEN load_and_play_song1(file)
                        ELSE load_and_play_song2(file, tempo_user)} :
               /\ cur' = out
               /\ attempted' = attempted + 1
               /\ outdir' = IF out.wrote
                            THEN outdir \cup {filename_output(songs(prog)[attempted + 1])}
                            ELSE outdir
               /\ mpc' = IF out.exc # "" THEN "raised" ELSE "loop"
    /\ UNCHANGED <<prog, pianoVars, waveVars, combVars>>

\* the loop has run through songs: main returns
Return ==
    /\ mpc = "loop"
    /\ attempted = Len(songs(prog))
    /\ mpc' = "done"
    /\ UNCHANGED <<prog, attempted, cur, outdir, pianoVars, waveVars, combVars>>

NextSong == NewSong \/ PlaySong \/ Return

SpecSong == InitSong /\ [][NextSong]_vars
File(c) == c.file[1]

\* the tempo names the loader builds Notes with
TemposUsed(c) == IF prog = "honors1" THEN Range(File(c).tempos) ELSE {c.tempo_user}

\* the lines the loader reads notes from: in honors1 the lines that do not
\* start with a quote, in honors2 the second and third line of each block
NoteLines(c) ==
    {File(c).lines[j] : j \in {i \in DOMAIN File(c).lines :
        IF prog = "honors1" THEN ~File(c).lines[i].quoted ELSE i % 3 # 1}}

HasNoteToken(c) ==
    \E l \in NoteLines(c) : \E k \in DOMAIN l.tokens : ~IsEmptyString(l.tokens[k])

Loaded(c) == c.called /\ File(c).exists

C5_BatchContinues ==
    mpc \in {"done", "raised"} => attempted = Len(songs(prog))

\* C7: no Note is built from a non-empty pitch outside the 12 pitch classes.
C7_MalformedPitchRejected ==
    \A k \in DOMAIN cur.built :
        cur.built[k].pitch = None \/ cur.built[k].pitch \in DOMAIN PITCH_CLASSES

(***************************************************************************)
(* SpecRender: a Piano under add_note_left, add_note_right and             *)
(* get_combined_wave_array, the arrays being objects.                      *)
(***************************************************************************)
ChordInputs ==
    {Note("A", 4, "QN", "Adagio"), Note("A", 4, "HNT", "Adagio"),
     Note(None, 0, "EN", "Adagio")}

\* piano.get_combined_wave_array(): the arrays of the heap after the call
\* are the ones the notes hold
RenderInPlace ==
    /\ \E r \in {get_combined_wave_array_heap(piano)} :
          /\ piano' = Holding(piano, r.heap)
          /\ ret' = r.ret
    /\ phase' = IF phase = "none" THEN "rendered"
                ELSE IF phase = "added" THEN "again"
                ELSE phase
    /\ UNCHANGED <<fresh, waveVars, combVars, songVars>>

NextRender == AddLeft(ChordInputs) \/ AddRight(ChordInputs) \/ RenderInPlace

SpecRender == Init /\ [][NextRender]_vars

\* C11: get_combined_wave_array changes nothing of the Piano: notes_left,
\* notes_right, time_left, time_right and the samples every note holds are
\* after the call what they were before it; a call that follows another
\* call with no add_note between them gives what the first gave; and a call
\* gives what it gives on the Piano built by the same add_note calls with
\* nothing rendered between them.
C11_RenderReadOnly ==
    [][RenderInPlace =>
         /\ piano' = piano
         /\ ret.kind # "none" => ret' = ret
         /\ ret' = get_combined_wave_array_heap(fresh).ret]_vars

\* a buffer returned by a render that follows add_note calls made after an
\* earlier render, both hands holding notes that sound
C11_Witness ==
    /\ phase = "again"
    /\ ret.kind = "array"
    /\ Len(piano.notes_left) = 2
    /\ Len(piano.notes_right) >= 1
    /\ \E i \in DOMAIN ret.data : ret.data[i] # 0
    /\ \E k \in DOMAIN piano.notes_left :
          \E i \in DOMAIN piano.notes_left[k][1].wave.data :
              piano.notes_left[k][1].wave.data[i] # 0

====
